---- MODULE Spec2Model ----
(***************************************************************************)
(* Model of metaspace_download.py: download_dataset_results(dataset_id,    *)
(* database, version).  One behaviour is one call.  Python strings are     *)
(* sequences of one-character strings; None and NaN are one-element        *)
(* sequences holding a pseudo character no real string contains.           *)
(***************************************************************************)
EXTENDS Naturals, Sequences, FiniteSets

VARIABLES
    databases,      \* str(db) of every entry of dataset.database_details
    database,       \* argument `database` (None or a string)
    version,        \* argument `version` (None or a string)
    pc,             \* position of the call
    database_info,  \* the parsed "name version" strings
    printed,        \* the console lines written so far
    idx,            \* position of the for loop of line 57 in database_info
    calls,          \* every dataset.results(...) call made, in order
    results_df,     \* the running combined table
    filename,       \* the computed output file name
    files,          \* every file written by to_csv, in order
    ret,            \* what the call returned
    exc,            \* the exception that ended the call, if any
    original,       \* the table the column-deriving step was first applied to
    applied         \* how many times the column-deriving step has run

vars == <<databases, database, version, pc, database_info, printed, idx,
          calls, results_df, filename, files, ret, exc, original, applied>>

\* ------------------------------------------------------------------ bounds
MaxDbs == 3
MaxIonLen == 4

\* ----------------------------------------------------------------- values
None == <<"None">>
NaN == <<"NaN">>

Min(a, b) == IF a < b THEN a ELSE b

UpperCase == {"A","B","C","D","E","F","G","H","I","J","K","L","M",
              "N","O","P","Q","R","S","T","U","V","W","X","Y","Z"}
LowerCase == {"a","b","c","d","e","f","g","h","i","j","k","l","m",
              "n","o","p","q","r","s","t","u","v","w","x","y","z"}
Digits == {"0","1","2","3","4","5","6","7","8","9"}

\* the character class [A-Za-z0-9] of the pattern of line 69
AlnumClass == UpperCase \cup LowerCase \cup Digits

\* ------------------------------------------------------- Python str methods
\* bool(s) of an optional string: None and "" are falsy
Truthy(s) == s # None /\ s # <<>>

\* s.startswith(p)
StartsWith(s, p) == Len(p) <= Len(s) /\ SubSeq(s, 1, Len(p)) = p

\* s.split(sep) for a one-character separator
RECURSIVE SplitOn(_, _)
SplitOn(s, sep) ==
    IF \A k \in 1..Len(s) : s[k] # sep
    THEN <<s>>
    ELSE LET k == CHOOSE k \in 1..Len(s) :
                      s[k] = sep /\ \A j \in 1..(k - 1) : s[j] # sep
         IN  <<SubSeq(s, 1, k - 1)>> \o SplitOn(SubSeq(s, k + 1, Len(s)), sep)

\* xs[a:b] for 0 <= a <= b
Slice(xs, a, b) == SubSeq(xs, a + 1, Min(b, Len(xs)))

\* s.strip(ch): drop every leading and trailing ch
RECURSIVE Strip(_, _)
Strip(s, ch) ==
    IF s = <<>> THEN s
    ELSE IF Head(s) = ch THEN Strip(Tail(s), ch)
    ELSE IF s[Len(s)] = ch THEN Strip(SubSeq(s, 1, Len(s) - 1), ch)
    ELSE s

\* sep.join(parts)
RECURSIVE Join(_, _)
Join(parts, sep) ==
    IF parts = <<>> THEN <<>>
    ELSE IF Len(parts) = 1 THEN parts[1]
    ELSE parts[1] \o sep \o Join(Tail(parts), sep)

\* s.split(): the maximal runs of non-whitespace characters
RECURSIVE SplitWs(_)
SplitWs(s) ==
    IF s = <<>> THEN <<>>
    ELSE IF Head(s) = " " THEN SplitWs(Tail(s))
    ELSE LET n == IF \E k \in 1..Len(s) : s[k] = " "
                  THEN (CHOOSE k \in 1..Len(s) :
                            s[k] = " " /\ \A j \in 1..(k - 1) : s[j] # " ") - 1
                  ELSE Len(s)
         IN  <<SubSeq(s, 1, n)>> \o SplitWs(SubSeq(s, n + 1, Len(s)))

\* ------------------------------------------------- parsing the descriptors
\* lines 33-36, for one db
ParseDb(db_str) ==
    LET name_version == Slice(SplitOn(db_str, ":"), 1, 3)
        stripped == [k \in 1..Len(name_version) |-> Strip(name_version[k], ">")]
    IN  Join(stripped, <<" ">>)

\* lines 31-36
ParseAll(dbs) == [k \in 1..Len(dbs) |-> ParseDb(dbs[k])]

\* line 40 and line 76: the entries the name filter matches
Matches(db, flt) == StartsWith(db, flt)
MatchedDatabases(info, flt) == SelectSeq(info, LAMBDA db : Matches(db, flt))

\* line 58: name, ver = db.split() needs exactly two tokens
Unpacks(db) == Len(SplitWs(db)) = 2
NameOf(db) == SplitWs(db)[1]
VerOf(db) == SplitWs(db)[2]

\* the filter of the loop with the name compared by prefix, as line 40 does
SelectedByPrefix(name, ver, flt, v) ==
    (flt = None \/ StartsWith(name, flt)) /\ (v = None \/ v = ver)

\* line 59: the filter of the loop
Selected(name, ver, flt, v) ==
    (flt = None \/ flt = name) /\ (v = None \/ v = ver)

\* ------------------------------------------------------------------ tables
\* a DataFrame: its column labels in order, and its rows in order, each row
\* the cell values in column order
EmptyDf == [cols |-> <<>>, rows |-> <<>>]

HasCol(t, c) == \E k \in 1..Len(t.cols) : t.cols[k] = c
ColIndex(t, c) == CHOOSE k \in 1..Len(t.cols) :
                      t.cols[k] = c /\ \A j \in 1..(k - 1) : t.cols[j] # c
Cell(t, r, c) == t.rows[r][ColIndex(t, c)]

\* df[c] = vals: overwrite the column(s) labelled c, or append a new column
SetColumn(t, c, vals) ==
    IF HasCol(t, c)
    THEN [cols |-> t.cols,
          rows |-> [r \in 1..Len(t.rows) |->
                      [k \in 1..Len(t.cols) |->
                          IF t.cols[k] = c THEN vals[r] ELSE t.rows[r][k]]]]
    ELSE [cols |-> Append(t.cols, c),
          rows |-> [r \in 1..Len(t.rows) |-> Append(t.rows[r], vals[r])]]

\* df[c] = scalar
SetScalar(t, c, v) == SetColumn(t, c, [r \in 1..Len(t.rows) |-> v])

\* lines 62-64: the fetched table, tagged
TagResult(result, name, ver) ==
    SetScalar(SetScalar(result, "Database", name), "Version", ver)

\* the concatenation with the new table put first
ConcatPrepend(a, b) ==
    LET cols == a.cols \o SelectSeq(b.cols, LAMBDA c : ~HasCol(a, c))
        Widen(t) == [r \in 1..Len(t.rows) |->
                       [k \in 1..Len(cols) |->
                           IF HasCol(t, cols[k]) THEN Cell(t, r, cols[k]) ELSE NaN]]
    IN  [cols |-> cols, rows |-> Widen(b) \o Widen(a)]

\* line 65: pd.concat([a, b], ignore_index=True): the union of the columns in
\* first-seen order, the rows of a then the rows of b, NaN where a table
\* lacks a column
Concat(a, b) ==
    LET cols == a.cols \o SelectSeq(b.cols, LAMBDA c : ~HasCol(a, c))
        Widen(t) == [r \in 1..Len(t.rows) |->
                       [k \in 1..Len(cols) |->
                           IF HasCol(t, cols[k]) THEN Cell(t, r, cols[k]) ELSE NaN]]
    IN  [cols |-> cols, rows |-> Widen(a) \o Widen(b)]

\* --------------------------------------------------- the column deriver
\* the end of a lazy run [A-Za-z0-9]+? that starts at position j
RunEndLazy(s, j) == j

\* the end of the greedy run [A-Za-z0-9]+ that starts at position j
RECURSIVE RunEnd(_, _)
RunEnd(s, j) ==
    IF j + 1 <= Len(s) /\ s[j + 1] \in AlnumClass THEN RunEnd(s, j + 1) ELSE j

\* whether the pattern \+[A-Za-z0-9]+ matches at position i
MatchesAt(s, i) == s[i] = "+" /\ i + 1 <= Len(s) /\ s[i + 1] \in AlnumClass

\* re.search from position i on: the leftmost match, or NaN
RECURSIVE SearchFrom(_, _)
SearchFrom(s, i) ==
    IF i > Len(s) THEN NaN
    ELSE IF MatchesAt(s, i) THEN SubSeq(s, i, RunEnd(s, i + 1))
    ELSE SearchFrom(s, i + 1)

\* line 69, for one cell: Series.str.extract(r'(\+[A-Za-z0-9]+)')
Extract(s) == IF s = NaN THEN NaN ELSE SearchFrom(s, 1)

\* line 72: rename(columns={'intensity': 'maxIntensity'})
RenameColumn(c) == IF c = "intensity" THEN "maxIntensity" ELSE c

\* lines 68-69
DeriveAdduct(t) ==
    IF HasCol(t, "ion")
    THEN SetColumn(t, "Adduct", [r \in 1..Len(t.rows) |-> Extract(Cell(t, r, "ion"))])
    ELSE t

\* a copy of the column under the new label, the old column kept
CopyIntensity(t) ==
    IF HasCol(t, "intensity")
    THEN SetColumn(t, "maxIntensity", [r \in 1..Len(t.rows) |-> Cell(t, r, "intensity")])
    ELSE t

\* lines 71-72
RenameIntensity(t) ==
    IF HasCol(t, "intensity")
    THEN [cols |-> [k \in 1..Len(t.cols) |-> RenameColumn(t.cols[k])], rows |-> t.rows]
    ELSE t

\* lines 67-72
DeriveColumns(t) == RenameIntensity(DeriveAdduct(t))

\* ------------------------------------------------------ the filename policy
AllVersionsCsv == <<"_","a","l","l","_","v","e","r","s","i","o","n","s",".","c","s","v">>
AllDatabasesCsv == <<"a","l","l","_","d","a","t","a","b","a","s","e","s",".","c","s","v">>
DotCsv == <<".","c","s","v">>

\* line 76
MatchedVersions(info, flt) ==
    LET m == MatchedDatabases(info, flt)
    IN  [k \in 1..Len(m) |-> VerOf(m[k])]

\* the filename policy with the comparison of line 77 off by one
FileNameOffByOne(info, flt) ==
    IF Truthy(flt)
    THEN IF Len(MatchedVersions(info, flt)) >= 1
         THEN flt \o AllVersionsCsv
         ELSE flt \o <<"_">> \o MatchedVersions(info, flt)[1] \o DotCsv
    ELSE AllDatabasesCsv

\* lines 75-82
FileName(info, flt) ==
    IF Truthy(flt)
    THEN IF Len(MatchedVersions(info, flt)) > 1
         THEN flt \o AllVersionsCsv
         ELSE flt \o <<"_">> \o MatchedVersions(info, flt)[1] \o DotCsv
    ELSE AllDatabasesCsv

\* a console line: the fixed text and the interpolated value
Line(text, value) == [text |-> text, value |-> value]

\* ------------------------------------------------------------- the inputs
\* str(db) of a database of the service: "<id:name:version>"
DbKG1 == <<"<","1",":","K","G",":","v","1",">">>
DbKG2 == <<"<","2",":","K","G",":","v","2",">">>
DbKGx == <<"<","3",":","K","G","x",":","v","1",">">>
DbHM1 == <<"<","4",":","H","M",":","v","1",">">>
DbCM1 == <<"<","5",":","C"," ","M",":","v","1",">">>
DbStrs == {DbKG1, DbKG2, DbKGx, DbHM1, DbCM1}

\* the lists dataset.database_details can hold
RECURSIVE SeqsUpTo(_, _)
SeqsUpTo(S, n) ==
    IF n = 0 THEN {<<>>}
    ELSE LET shorter == SeqsUpTo(S, n - 1)
         IN  shorter \cup {Append(xs, x) : xs \in shorter, x \in S}

\* a dataset lists a database once
NoRepeat(xs) == \A k, l \in 1..Len(xs) : xs[k] = xs[l] => k = l
DbLists == {xs \in SeqsUpTo(DbStrs, MaxDbs) : NoRepeat(xs)}

\* the values of the arguments `database` and `version`
DatabaseArgs == {None, <<>>, <<"K">>, <<"K","G">>, <<"Z","Z">>}
VersionArgs == {None, <<"v","1">>, <<"v","2">>}

\* the tables dataset.results(...) can answer with
IonNa == <<"C","+","N","a","+">>
IonH == <<"C","-","H","-">>
TblIons == [cols |-> <<"ion","intensity">>,
            rows |-> << <<IonNa, <<"5">>>>, <<IonH, <<"7">>>> >>]
TblMz == [cols |-> <<"mz">>, rows |-> << << <<"9">> >> >>]
ResultTables == {EmptyDf, TblIons, TblMz}

\* the tables the column deriver is exercised on: one row, the ion any string
\* of at most MaxIonLen characters or missing
IonAlphabet == {"+", "H", "2", "-"}
IonValues == SeqsUpTo(IonAlphabet, MaxIonLen) \cup {NaN}
DeriveCols == {<<>>, <<"mz">>, <<"ion">>, <<"intensity">>, <<"mz","ion","intensity">>,
               <<"intensity","maxIntensity">>, <<"Adduct","mz">>, <<"Adduct","ion">>}
DeriveRow(cols, ion) ==
    [k \in 1..Len(cols) |-> IF cols[k] = "ion" THEN ion ELSE <<"7">>]
DeriveInputs ==
    {[cols |-> cols, rows |-> <<DeriveRow(cols, ion)>>] :
        cols \in DeriveCols, ion \in IonValues}
    \cup {[cols |-> cols, rows |-> <<>>] : cols \in DeriveCols}

Unset == [kind |-> "unset", df |-> EmptyDf]
ReturnNone == [kind |-> "None", df |-> EmptyDf]
ReturnDf(t) == [kind |-> "DataFrame", df |-> t]

\* ------------------------------------------------------------------- state
Init ==
    /\ databases \in DbLists
    /\ database \in DatabaseArgs
    /\ version \in VersionArgs
    /\ pc = "start"
    /\ database_info = <<>>
    /\ printed = <<>>
    /\ idx = 1
    /\ calls = <<>>
    /\ results_df = EmptyDf
    /\ filename = <<>>
    /\ files = <<>>
    /\ ret = Unset
    /\ exc = "none"
    /\ original = EmptyDf
    /\ applied = 0

\* lines 25-36: the dataset is looked up and its databases are parsed
GetDatabaseDetails ==
    /\ pc = "start"
    /\ database_info' = ParseAll(databases)
    /\ pc' = "check"
    /\ UNCHANGED <<databases, database, version, printed, idx, calls, results_df,
                   filename, files, ret, exc, original, applied>>

\* lines 25-29: the lookup of the dataset fails
DatasetLookupFails ==
    /\ pc = "start"
    /\ pc' = "raised"
    /\ exc' = "RemoteError"
    /\ UNCHANGED <<databases, database, version, database_info, printed, idx, calls,
                   results_df, filename, files, ret, original, applied>>

\* the report of lines 42-45 without the return of line 46
DatabaseNotFoundFallsThrough ==
    /\ pc = "check"
    /\ Truthy(database)
    /\ MatchedDatabases(database_info, database) = <<>>
    /\ printed' = printed
                  \o <<Line("Could not find database: ", database),
                       Line("Available databases and versions:", <<>>)>>
                  \o [k \in 1..Len(database_info) |-> Line("", database_info[k])]
    /\ pc' = "loop"
    /\ UNCHANGED <<databases, database, version, database_info, idx, calls,
                   results_df, filename, files, ret, exc, original, applied>>

\* lines 39-46: the name filter matches nothing
DatabaseNotFound ==
    /\ pc = "check"
    /\ Truthy(database)
    /\ MatchedDatabases(database_info, database) = <<>>
    /\ printed' = printed
                  \o <<Line("Could not find database: ", database),
                       Line("Available databases and versions:", <<>>)>>
                  \o [k \in 1..Len(database_info) |-> Line("", database_info[k])]
    /\ ret' = ReturnNone
    /\ pc' = "done"
    /\ UNCHANGED <<databases, database, version, database_info, idx, calls,
                   results_df, filename, files, exc, original, applied>>

\* lines 47-51: several matches and no version: the warning
WarnMultipleVersions ==
    /\ pc = "check"
    /\ Truthy(database)
    /\ Len(MatchedDatabases(database_info, database)) > 1
    /\ version = None
    /\ printed' = printed
                  \o <<Line("Warning: Multiple versions found for database ", database),
                       Line("Available versions:", <<>>)>>
                  \o LET m == MatchedDatabases(database_info, database)
                     IN  [k \in 1..Len(m) |-> Line("", m[k])]
    /\ pc' = "loop"
    /\ UNCHANGED <<databases, database, version, database_info, idx, calls,
                   results_df, filename, files, ret, exc, original, applied>>

\* lines 39-54: nothing to report
CheckPasses ==
    /\ pc = "check"
    /\ \/ ~Truthy(database)
       \/ Len(MatchedDatabases(database_info, database)) = 1
       \/ Len(MatchedDatabases(database_info, database)) > 1 /\ version # None
    /\ pc' = "loop"
    /\ UNCHANGED <<databases, database, version, database_info, printed, idx, calls,
                   results_df, filename, files, ret, exc, original, applied>>

InLoop == pc = "loop" /\ idx <= Len(database_info)

\* line 58: db.split() does not give two tokens: ValueError
UnpackFails ==
    /\ InLoop
    /\ ~Unpacks(database_info[idx])
    /\ pc' = "raised"
    /\ exc' = "ValueError"
    /\ UNCHANGED <<databases, database, version, database_info, printed, idx, calls,
                   results_df, filename, files, ret, original, applied>>

\* lines 58-59: the filter rejects db
SkipDatabase ==
    /\ InLoop
    /\ Unpacks(database_info[idx])
    /\ ~Selected(NameOf(database_info[idx]), VerOf(database_info[idx]), database, version)
    /\ idx' = idx + 1
    /\ UNCHANGED <<databases, database, version, pc, database_info, printed, calls,
                   results_df, filename, files, ret, exc, original, applied>>

Call(i, name, ver, ok, result) ==
    [index |-> i, name |-> name, ver |-> ver, ok |-> ok, result |-> result]

\* a failed dataset.results(...) caught and the loop continued
FetchFailureSwallowed(name, ver) ==
    /\ calls' = Append(calls, Call(idx, name, ver, FALSE, EmptyDf))
    /\ idx' = idx + 1
    /\ UNCHANGED <<pc, exc, results_df>>

\* what a failed dataset.results(...) does to the call: the exception is not caught
FetchFailure(name, ver) ==
    /\ calls' = Append(calls, Call(idx, name, ver, FALSE, EmptyDf))
    /\ pc' = "raised"
    /\ exc' = "RemoteError"
    /\ UNCHANGED <<idx, results_df>>

\* lines 58-65: db is selected and its results arrive
FetchResults ==
    /\ InLoop
    /\ Unpacks(database_info[idx])
    /\ LET name == NameOf(database_info[idx])
           ver == VerOf(database_info[idx])
       IN  /\ Selected(name, ver, database, version)
           /\ printed' = Append(printed, Line("Processing database: ", name \o <<",">> \o ver))
           /\ \E result \in ResultTables :
                /\ calls' = Append(calls, Call(idx, name, ver, TRUE, result))
                /\ results_df' = Concat(results_df, TagResult(result, name, ver))
           /\ idx' = idx + 1
    /\ UNCHANGED <<databases, database, version, pc, database_info,
                   filename, files, ret, exc, original, applied>>

\* lines 58-61: db is selected and dataset.results(...) raises
FetchFails ==
    /\ InLoop
    /\ Unpacks(database_info[idx])
    /\ LET name == NameOf(database_info[idx])
           ver == VerOf(database_info[idx])
       IN  /\ Selected(name, ver, database, version)
           /\ printed' = Append(printed, Line("Processing database: ", name \o <<",">> \o ver))
           /\ FetchFailure(name, ver)
    /\ UNCHANGED <<databases, database, version, database_info,
                   filename, files, ret, original, applied>>

LoopDone == pc = "loop" /\ idx > Len(database_info)

\* a write of the header row alone
ToCsvHeaderOnly(fs, name, t) == Append(fs, [name |-> name, df |-> [cols |-> t.cols, rows |-> <<>>]])

\* line 85: results_df.to_csv(filename, index=False)
ToCsv(fs, name, t) == Append(fs, [name |-> name, df |-> t])

\* lines 67-87: derive the columns, name the file, write it, return the table
Save ==
    /\ LoopDone
    /\ original' = results_df
    /\ applied' = 1
    /\ results_df' = DeriveColumns(results_df)
    /\ filename' = FileName(database_info, database)
    /\ files' = ToCsv(files, filename', results_df')
    /\ printed' = Append(printed, Line("Results saved to ", filename'))
    /\ ret' = ReturnDf(results_df')
    /\ pc' = "done"
    /\ UNCHANGED <<databases, database, version, database_info, idx, calls, exc>>

\* lines 67-85: to_csv raises (the file cannot be written)
SaveFails ==
    /\ LoopDone
    /\ original' = results_df
    /\ applied' = 1
    /\ results_df' = DeriveColumns(results_df)
    /\ filename' = FileName(database_info, database)
    /\ pc' = "raised"
    /\ exc' = "OSError"
    /\ UNCHANGED <<databases, database, version, database_info, printed, idx, calls,
                   files, ret>>

Next ==
    \/ GetDatabaseDetails
    \/ DatasetLookupFails
    \/ DatabaseNotFound
    \/ WarnMultipleVersions
    \/ CheckPasses
    \/ UnpackFails
    \/ SkipDatabase
    \/ FetchResults
    \/ FetchFails
    \/ Save
    \/ SaveFails

Spec == Init /\ [][Next]_vars

\* ------------------------------------ the column deriver as a pure function
InitDerive ==
    /\ databases = <<>>
    /\ database = None
    /\ version = None
    /\ pc = "derive"
    /\ database_info = <<>>
    /\ printed = <<>>
    /\ idx = 1
    /\ calls = <<>>
    /\ results_df \in DeriveInputs
    /\ filename = <<>>
    /\ files = <<>>
    /\ ret = Unset
    /\ exc = "none"
    /\ original = results_df
    /\ applied = 0

\* lines 67-72, run on the table at hand
Derive ==
    /\ pc = "derive"
    /\ applied < 2
    /\ results_df' = DeriveColumns(results_df)
    /\ applied' = applied + 1
    /\ UNCHANGED <<databases, database, version, pc, database_info, printed, idx,
                   calls, filename, files, ret, exc, original>>

NextDerive == Derive

SpecDerive == InitDerive /\ [][NextDerive]_vars

\* ------------------------------------------------------------- properties
\* what the call was given: the parsed descriptors of the dataset
ParsedInfo == ParseAll(databases)

\* the descriptors whose "name version" string starts with the name filter
PrefixMatches == {i \in 1..Len(ParsedInfo) : StartsWith(ParsedInfo[i], database)}

\* the descriptors whose name and version equal the two filters
ExactMatches ==
    {i \in 1..Len(ParsedInfo) :
        /\ Unpacks(ParsedInfo[i])
        /\ NameOf(ParsedInfo[i]) = database
        /\ VerOf(ParsedInfo[i]) = version}

\* the descriptors dataset.results was called for, and those it answered for
Called == {calls[k].index : k \in 1..Len(calls)}
FetchedOk == {calls[k].index : k \in {j \in 1..Len(calls) : calls[j].ok}}

\* the number of rows the answered calls returned, over the first n calls
RECURSIVE RowsReturned(_)
RowsReturned(n) ==
    IF n = 0 THEN 0
    ELSE RowsReturned(n - 1) + (IF calls[n].ok THEN Len(calls[n].result.rows) ELSE 0)

\* C1: when database is None, whatever version is, a call that returns has
\* fetched every descriptor of the dataset and its table holds the rows of all
\* of them.
C1_EveryDescriptorFetched ==
    (pc = "done" /\ database = None) =>
        /\ ret.kind = "DataFrame"
        /\ \A i \in 1..Len(databases) : i \in FetchedOk
        /\ Len(ret.df.rows) = RowsReturned(Len(calls))

\* the report of lines 42-45
NotFoundReport ==
    /\ Len(printed) = 2 + Len(ParsedInfo)
    /\ printed[1] = Line("Could not find database: ", database)
    /\ printed[2] = Line("Available databases and versions:", <<>>)
    /\ \A k \in 1..Len(ParsedInfo) : printed[2 + k] = Line("", ParsedInfo[k])

\* C2: when a name filter is given (a non-empty string, as line 39 tests it)
\* and no parsed "name version" string starts with it, no results are ever
\* fetched and no file is ever written, and once the descriptors are checked
\* the call has reported the failure with the available list and returned None.
C2_NoMatchNoOutput ==
    (Truthy(database) /\ PrefixMatches = {}) =>
        /\ calls = <<>>
        /\ files = <<>>
        /\ exc \in {"none", "RemoteError"}
        /\ exc = "RemoteError" => database_info = <<>>
        /\ (pc \notin {"start", "check"} /\ exc = "none") =>
              pc = "done" /\ ret = ReturnNone /\ NotFoundReport

C2_Witness ==
    /\ pc = "done"
    /\ ret = ReturnNone
    /\ database = <<"Z","Z">>
    /\ Len(databases) = 2
    /\ NotFoundReport

\* the warning of lines 48-51 lists every match
WarningListsMatches ==
    \A i \in PrefixMatches : \E k \in 1..Len(printed) : printed[k] = Line("", ParsedInfo[i])

\* C3: when the name filter matches two or more descriptors and version is
\* None, a call that ends normally went past the warning, returns a table, has
\* fetched every descriptor the warning lists, and the row count of its table
\* is the sum of the row counts of their result tables.
C3_AllMatchesFetched ==
    (Truthy(database) /\ Cardinality(PrefixMatches) >= 2 /\ version = None
        /\ pc = "done") =>
        /\ ret.kind = "DataFrame"
        /\ WarningListsMatches
        /\ FetchedOk = PrefixMatches
        /\ Len(ret.df.rows) = RowsReturned(Len(calls))

C5_ExactMatchOnly ==
    (database # None /\ version # None) =>
        /\ Called \subseteq ExactMatches
        /\ pc = "done" => FetchedOk = ExactMatches
        /\ ret.kind = "DataFrame" =>
              \A r \in 1..Len(ret.df.rows) :
                  /\ Cell(ret.df, r, "Database") = database
                  /\ Cell(ret.df, r, "Version") = version

C5_Witness ==
    /\ pc = "done"
    /\ database = <<"K","G">>
    /\ version = <<"v","1">>
    /\ databases = <<DbKGx, DbKG1, DbKG2>>
    /\ Called = {2}
    /\ Len(ret.df.rows) = 2

\* a is the first occurrence in s of a '+' followed by a maximal non-empty run
\* of characters of [A-Za-z0-9], or missing when s has no such occurrence
Occurs(s, i) == i + 1 <= Len(s) /\ s[i] = "+" /\ s[i + 1] \in AlnumClass
IsAdductOf(a, s) ==
    IF s = NaN \/ ~\E i \in 1..Len(s) : Occurs(s, i)
    THEN a = NaN
    ELSE \E i \in 1..Len(s) : \E j \in (i + 1)..Len(s) :
            /\ Occurs(s, i)
            /\ \A h \in 1..(i - 1) : ~Occurs(s, h)
            /\ \A k \in (i + 1)..j : s[k] \in AlnumClass
            /\ j = Len(s) \/ s[j + 1] \notin AlnumClass
            /\ a = SubSeq(s, i, j)

Offset(k) == RowsReturned(k - 1)

\* the label a fetched column has in the combined table
LabelNow(c) == IF applied >= 1 /\ c = "intensity" THEN "maxIntensity" ELSE c

\* C7: descriptors are fetched in the order of the dataset's list, each under
\* its parsed name and version; the combined table is the fetched tables one
\* after the other in fetch order, rows in their own order, and every row is
\* tagged in Database and Version with the descriptor it was fetched for.
C7_OrderAndTags ==
    /\ \A k, l \in 1..Len(calls) : k < l => calls[k].index < calls[l].index
    /\ \A k \in 1..Len(calls) :
          /\ calls[k].name = NameOf(ParsedInfo[calls[k].index])
          /\ calls[k].ver = VerOf(ParsedInfo[calls[k].index])
    /\ Len(results_df.rows) = RowsReturned(Len(calls))
    /\ \A k \in 1..Len(calls) : \A r \in 1..Len(calls[k].result.rows) :
          /\ Cell(results_df, Offset(k) + r, "Database") = calls[k].name
          /\ Cell(results_df, Offset(k) + r, "Version") = calls[k].ver
          /\ \A c \in 1..Len(calls[k].result.cols) :
                Cell(results_df, Offset(k) + r, LabelNow(calls[k].result.cols[c]))
                    = calls[k].result.rows[r][c]
    /\ ret.kind = "DataFrame" => ret.df = results_df

C7_Witness ==
    /\ pc = "done"
    /\ databases = <<DbHM1, DbKG2>>
    /\ Len(calls) = 2
    /\ calls[1].result = TblMz
    /\ calls[2].result = TblIons
    /\ Len(ret.df.rows) = 3
    /\ Cell(ret.df, 1, "Database") = <<"H","M">>
    /\ Cell(ret.df, 3, "Version") = <<"v","2">>

\* C8: a results fetch that fails ends the call with the failure: it is the
\* last fetch made (no retry, no later descriptor), no file is written and
\* nothing is returned.
C8_FetchFailurePropagates ==
    \A k \in 1..Len(calls) :
        ~calls[k].ok =>
            /\ k = Len(calls)
            /\ \A j \in 1..(k - 1) : calls[j].index < calls[k].index
            /\ pc = "raised"
            /\ exc = "RemoteError"
            /\ files = <<>>
            /\ ret = Unset

C8_Witness ==
    /\ pc = "raised"
    /\ database = None
    /\ version = None
    /\ Len(databases) = 3
    /\ Len(calls) = 2
    /\ calls[1].ok
    /\ Len(calls[1].result.rows) = 2
    /\ ~calls[2].ok

\* the descriptors the loop selects
SelectedSet ==
    {i \in 1..Len(ParsedInfo) :
        /\ Unpacks(ParsedInfo[i])
        /\ database = None \/ NameOf(ParsedInfo[i]) = database
        /\ version = None \/ VerOf(ParsedInfo[i]) = version}

\* C9: fetches are made one per selected descriptor, never twice for one and
\* never for an unselected one; at most one file is written, only after every
\* selected descriptor has been fetched, and the table returned is the table
\* written.
C9_OneFetchEachThenOneWrite ==
    /\ \A k, l \in 1..Len(calls) : calls[k].index = calls[l].index => k = l
    /\ Called \subseteq SelectedSet
    /\ Len(files) <= 1
    /\ files # <<>> =>
          /\ FetchedOk = SelectedSet
          /\ Len(calls) = Cardinality(SelectedSet)
          /\ idx > Len(database_info)
          /\ ret = ReturnDf(files[1].df)
    /\ ret.kind = "DataFrame" => Len(files) = 1 /\ files[1].df = ret.df

C9_Witness ==
    /\ pc = "done"
    /\ Len(files) = 1
    /\ Len(databases) = 3
    /\ Len(calls) = 2
    /\ version = <<"v","1">>
    /\ Len(ret.df.rows) = 3
    /\ files[1].df = ret.df

\* the labels of a table other than Adduct, in order
OtherLabels(t) == SelectSeq(t.cols, LAMBDA c : c # "Adduct")

\* C10: after the column deriver has run, a table that had an intensity column
\* has a maxIntensity column and no intensity column; a table that had none
\* keeps its labels (Adduct aside) and its rows' count, and nothing is raised;
\* running the deriver a second time leaves the columns as the first run left
\* them.
C10_RenameIdempotent ==
    /\ [](applied >= 1 =>
            /\ pc = "derive" => exc = "none"
            /\ HasCol(original, "intensity") =>
                  HasCol(results_df, "maxIntensity") /\ ~HasCol(results_df, "intensity")
            /\ ~HasCol(original, "intensity") =>
                  /\ OtherLabels(results_df) = OtherLabels(original)
                  /\ Len(results_df.rows) = Len(original.rows))
    /\ [][(applied = 1 /\ applied' = 2) => results_df'.cols = results_df.cols]_vars

C10_Witness ==
    /\ applied = 2
    /\ original.cols = <<"mz","ion","intensity">>
    /\ results_df.cols = <<"mz","ion","maxIntensity","Adduct">>

====
